---- MODULE Spec2Model ----
(***************************************************************************)
(* State machine of src/src/App.js: a React component that owns an         *)
(* OpenLayers map, a freehand vector source edited through Draw / Modify / *)
(* Translate interactions, and a list of imported GeoJSON layers with      *)
(* per-layer visibility and style.                                         *)
(*                                                                         *)
(* One action is one event fully processed: the handler, the React         *)
(* re-render its state setters cause, and the layer re-add effect          *)
(* (App.js:47-72) when one of its dependencies changed.                    *)
(***************************************************************************)
EXTENDS Integers, Sequences, FiniteSets, TLC

\* ------------------------------------------------------------------ bounds
MaxInteractions == 3    \* interaction objects constructed in one run
MaxFeatures == 2        \* features drawn in one run
MaxImports == 2         \* files chosen for import in one run

\* --------------------------------------------------------------- constants
NoId == 0                                  \* JS null for an object reference
MapNull == "null"                          \* useState(null), App.js:16
MapObject == "map"                         \* the Map built at App.js:25
GeometryTypes == {"Point", "LineString", "Polygon"}     \* App.js:224,232,240
LayerTypes == {"osm", "satellite"}                      \* App.js:216-217
DefaultStrokeColor == 3252179              \* "#319FD3" as a 24-bit number, App.js:122
DefaultStrokeWidth == 1                                 \* App.js:122
DefaultFillOpacity == 6                    \* tenths: rgba(255,255,255,0.6), App.js:121

VARIABLES
    map,              \* React state `map` as the current handlers see it
    layerType,        \* React state `layerType`
    drawInteraction,  \* React state `drawInteraction`: id of a Draw, or NoId
    vectorSource,     \* features of vectorSource.current (the Geometry Store)
    geoJsonLayers,    \* React state `geoJsonLayers`: sequence of layer ids
    showAllLayers,    \* React state `showAllLayers`
    mapLayers,        \* the OpenLayers map's layer collection, bottom first
    mapInteractions,  \* the editing interactions added to the map, in order
    layerObj,         \* the imported VectorLayer objects: id -> visible, style
    readers,          \* FileReaders whose onload has not run yet
    nextInteraction,  \* next fresh interaction id
    nextFeature,      \* next fresh feature id
    nextLayer,        \* next fresh reader / imported-layer id
    deleted,          \* history: the listed layers that delete removed
    last              \* history: the event processed last and how it ended

vars == <<map, layerType, drawInteraction, vectorSource, geoJsonLayers,
          showAllLayers, mapLayers, mapInteractions, layerObj, readers,
          nextInteraction, nextFeature, nextLayer, deleted, last>>

interactionVars == <<drawInteraction, vectorSource, mapInteractions,
                     nextInteraction, nextFeature>>
layerVars == <<layerType, geoJsonLayers, showAllLayers, mapLayers, layerObj,
               readers, nextLayer, deleted>>

\* ----------------------------------------------------------------- helpers
Range(s) == {s[i] : i \in DOMAIN s}

\* Collection.remove: drops the element with this identity, if present.
RemoveId(s, id) == SelectSeq(s, LAMBDA x : x.id # id)

Event(op, id, prop, val, err) ==
    [op |-> op, id |-> id, prop |-> prop, val |-> val, err |-> err,
     rep |-> last.op = op]

\* ------------------------------------------------------------- map layers
TileLayer(lt) == [kind |-> "tile", src |-> lt, id |-> NoId]
FreehandLayer == [kind |-> "vector", src |-> "vectorSource", id |-> NoId]
GeoJsonLayer(id) == [kind |-> "vector", src |-> "geojson", id |-> id]

ReAddEffectNoFreehand(m, lt, gl, ml) ==
    IF m = MapNull THEN ml
    ELSE <<TileLayer(lt)>> \o [i \in 1..Len(gl) |-> GeoJsonLayer(gl[i])]

ReAddEffectNoClear(m, lt, gl, ml) ==
    IF m = MapNull THEN ml
    ELSE ml \o <<TileLayer(lt), FreehandLayer>>
            \o [i \in 1..Len(gl) |-> GeoJsonLayer(gl[i])]

\* The effect with dependencies [layerType, map, geoJsonLayers]: with a map,
\* clear the collection, add the basemap, a vector layer on the freehand
\* source, then every imported layer; without one, nothing.
ReAddEffect(m, lt, gl, ml) ==
    IF m = MapNull THEN ml
    ELSE <<TileLayer(lt), FreehandLayer>>
             \o [i \in 1..Len(gl) |-> GeoJsonLayer(gl[i])]

\* ------------------------------------------------------------ interactions
FeatureIds(src) == {f.id : f \in src}

getFeaturesCollection(src) == [live |-> TRUE, ids |-> {}]

\* vectorSource.current.getFeatures(): a fresh array of the features the
\* source holds now, not the source's own collection.
getFeatures(src) == [live |-> FALSE, ids |-> FeatureIds(src)]

\* Draw and Modify are constructed with `source:` and follow the source.
SourceBound == [live |-> TRUE, ids |-> {}]

\* The features an interaction acts on in the current state.
BoundFeatures(i) == IF i.target.live THEN FeatureIds(vectorSource) ELSE i.target.ids

Interaction(id, kind, type, target) ==
    [id |-> id, kind |-> kind, type |-> type, target |-> target]

OfKind(kind) == {i \in Range(mapInteractions) : i.kind = kind}

Init ==
    /\ map = MapNull
    /\ layerType = "osm"
    /\ drawInteraction = NoId
    /\ vectorSource = {}
    /\ geoJsonLayers = <<>>
    /\ showAllLayers = TRUE
    /\ mapLayers = <<TileLayer("osm"), FreehandLayer>>
    /\ mapInteractions = <<>>
    /\ layerObj = [id \in {} |-> id]
    /\ readers = {}
    /\ nextInteraction = 1
    /\ nextFeature = 1
    /\ nextLayer = 1
    /\ deleted = {}
    /\ last = [op |-> "mount", id |-> NoId, prop |-> "", val |-> 0, err |-> "",
               rep |-> FALSE]

\* setMap(initialMap) of the mount effect takes effect: the component
\* re-renders, handlers see the map, and the re-add effect runs.
MapStateCommit ==
    /\ map = MapNull
    /\ map' = MapObject
    /\ mapLayers' = ReAddEffect(MapObject, layerType, geoJsonLayers, mapLayers)
    /\ last' = Event("mapCommit", NoId, "", 0, "")
    /\ UNCHANGED <<layerType, geoJsonLayers, showAllLayers, layerObj, readers,
                   nextLayer, deleted, interactionVars>>

addDrawInteractionKeepOld(type) ==
    /\ nextInteraction <= MaxInteractions
    /\ IF map = MapNull
       THEN /\ UNCHANGED interactionVars
            /\ last' = Event("startDraw", NoId, type, 0, "")
       ELSE /\ mapInteractions' = Append(mapInteractions,
                    Interaction(nextInteraction, "Draw", type, SourceBound))
            /\ drawInteraction' = nextInteraction
            /\ nextInteraction' = nextInteraction + 1
            /\ last' = Event("startDraw", nextInteraction, type, 0, "")
            /\ UNCHANGED <<vectorSource, nextFeature>>
    /\ UNCHANGED <<map, layerVars>>

addDrawInteraction(type) ==
    /\ nextInteraction <= MaxInteractions
    /\ IF map = MapNull
       THEN /\ UNCHANGED interactionVars
            /\ last' = Event("startDraw", NoId, type, 0, "")
       ELSE LET removed == IF drawInteraction # NoId
                           THEN RemoveId(mapInteractions, drawInteraction)
                           ELSE mapInteractions
            IN  /\ mapInteractions' = Append(removed,
                        Interaction(nextInteraction, "Draw", type, SourceBound))
                /\ drawInteraction' = nextInteraction
                /\ nextInteraction' = nextInteraction + 1
                /\ last' = Event("startDraw", nextInteraction, type, 0, "")
                /\ UNCHANGED <<vectorSource, nextFeature>>
    /\ UNCHANGED <<map, layerVars>>

drawendKeepDraw(d) ==
    /\ d \in OfKind("Draw")
    /\ nextFeature <= MaxFeatures
    /\ vectorSource' = vectorSource \cup
                         {[id |-> nextFeature, type |-> d.type, geom |-> "drawn"]}
    /\ nextFeature' = nextFeature + 1
    /\ last' = Event("drawend", d.id, d.type, nextFeature, "")
    /\ UNCHANGED <<mapInteractions, drawInteraction, nextInteraction, map,
                   layerVars>>

\* The user finishes the shape of an installed Draw: the Draw adds the feature
\* to its source, and the 'drawend' listener removes that Draw from the map.
drawend(d) ==
    /\ d \in OfKind("Draw")
    /\ nextFeature <= MaxFeatures
    /\ vectorSource' = vectorSource \cup
                         {[id |-> nextFeature, type |-> d.type, geom |-> "drawn"]}
    /\ nextFeature' = nextFeature + 1
    /\ mapInteractions' = RemoveId(mapInteractions, d.id)
    /\ drawInteraction' = NoId
    /\ last' = Event("drawend", d.id, d.type, nextFeature, "")
    /\ UNCHANGED <<nextInteraction, map, layerVars>>

handleModifyFeatures ==
    /\ nextInteraction <= MaxInteractions
    /\ IF map = MapNull
       THEN /\ UNCHANGED interactionVars
            /\ last' = Event("startModify", NoId, "", 0, "TypeError")
       ELSE /\ mapInteractions' = Append(mapInteractions,
                    Interaction(nextInteraction, "Modify", "", SourceBound))
            /\ nextInteraction' = nextInteraction + 1
            /\ last' = Event("startModify", nextInteraction, "", 0, "")
            /\ UNCHANGED <<drawInteraction, vectorSource, nextFeature>>
    /\ UNCHANGED <<map, layerVars>>

handleTranslateFeatures ==
    /\ nextInteraction <= MaxInteractions
    /\ IF map = MapNull
       THEN /\ UNCHANGED interactionVars
            /\ last' = Event("startTranslate", NoId, "", 0, "TypeError")
       ELSE /\ mapInteractions' = Append(mapInteractions,
                    Interaction(nextInteraction, "Translate", "",
                                getFeatures(vectorSource)))
            /\ nextInteraction' = nextInteraction + 1
            /\ last' = Event("startTranslate", nextInteraction, "", 0, "")
            /\ UNCHANGED <<drawInteraction, vectorSource, nextFeature>>
    /\ UNCHANGED <<map, layerVars>>

\* The user drags a vertex of a feature while a Modify is installed: the
\* feature's geometry changes in place; the Modify stays installed.
modifyEdit(m, f) ==
    /\ m \in OfKind("Modify")
    /\ f \in vectorSource
    /\ f.id \in BoundFeatures(m)
    /\ vectorSource' = (vectorSource \ {f}) \cup {[f EXCEPT !.geom = "edited"]}
    /\ last' = Event("modifyEdit", m.id, "", f.id, "")
    /\ UNCHANGED <<drawInteraction, mapInteractions, nextInteraction,
                   nextFeature, map, layerVars>>

NextInteraction ==
    \/ MapStateCommit
    \/ \E type \in GeometryTypes : addDrawInteraction(type)
    \/ \E d \in Range(mapInteractions) : drawend(d)
    \/ handleModifyFeatures
    \/ handleTranslateFeatures
    \/ \E m \in Range(mapInteractions), f \in vectorSource : modifyEdit(m, f)

SpecInteraction == Init /\ [][NextInteraction]_vars

\* --------------------------------------------------------- imported layers
Restrict(f, S) == [id \in (DOMAIN f) \cap S |-> f[id]]

\* The layer objects that the component or a pending onload closure still
\* references; the others are garbage.
Referenced(gl, rs) == Range(gl) \cup UNION {Range(r.layers) : r \in rs}

\* new VectorLayer({source, style}): `visible` is not passed and defaults to
\* true; the style is a new Style with the fixed fill and stroke.
NewGeoJsonLayer ==
    [visible |-> TRUE, strokeColor |-> DefaultStrokeColor,
     strokeWidth |-> DefaultStrokeWidth, fillOpacity |-> DefaultFillOpacity]

FileTexts == {"geojson", "malformed"}

readFeaturesNeverThrows(text) == FALSE

\* geojsonFormat.readFeatures(text, ...) parses the text and throws on text
\* that is not JSON.
readFeaturesThrows(text) == text = "malformed"

handleLayerChangeDropLayers(value) ==
    /\ layerType' = value
    /\ mapLayers' = IF value = layerType THEN mapLayers
                    ELSE ReAddEffect(map, value, <<>>, mapLayers)
    /\ last' = Event("layerChange", NoId, value, 0, "")
    /\ UNCHANGED <<map, geoJsonLayers, showAllLayers, layerObj, readers,
                   nextLayer, deleted, interactionVars>>

handleLayerChange(value) ==
    /\ layerType' = value
    /\ mapLayers' = IF value = layerType THEN mapLayers
                    ELSE ReAddEffect(map, value, geoJsonLayers, mapLayers)
    /\ last' = Event("layerChange", NoId, value, 0, "")
    /\ UNCHANGED <<map, geoJsonLayers, showAllLayers, layerObj, readers,
                   nextLayer, deleted, interactionVars>>

\* A file is chosen: a FileReader is created whose onload closes over the
\* `map` and `geoJsonLayers` of the current render, and the read is started.
handleGeoJSONImport ==
    /\ nextLayer <= MaxImports
    /\ readers' = readers \cup
                    {[id |-> nextLayer, map |-> map, layers |-> geoJsonLayers]}
    /\ nextLayer' = nextLayer + 1
    /\ last' = Event("importStart", nextLayer, "", 0, "")
    /\ UNCHANGED <<map, layerType, geoJsonLayers, showAllLayers, mapLayers,
                   layerObj, deleted, interactionVars>>

\* reader.onload for a file holding `text`.
readerOnload(r, text) ==
    /\ r \in readers
    /\ readers' = readers \ {r}
    /\ IF readFeaturesThrows(text)
       THEN /\ last' = Event("importDone", r.id, text, 0, "SyntaxError")
            /\ layerObj' = Restrict(layerObj, Referenced(geoJsonLayers, readers'))
            /\ UNCHANGED <<geoJsonLayers, mapLayers>>
       ELSE IF r.map = MapNull
       THEN /\ last' = Event("importDone", r.id, text, 0, "TypeError")
            /\ layerObj' = Restrict(layerObj, Referenced(geoJsonLayers, readers'))
            /\ UNCHANGED <<geoJsonLayers, mapLayers>>
       ELSE LET added == Append(mapLayers, GeoJsonLayer(r.id))
                newLayers == Append(r.layers, r.id)
                created == [id \in DOMAIN layerObj \cup {r.id} |->
                              IF id = r.id THEN NewGeoJsonLayer ELSE layerObj[id]]
            IN  /\ geoJsonLayers' = newLayers
                /\ mapLayers' = ReAddEffect(map, layerType, newLayers, added)
                /\ layerObj' = Restrict(created, Referenced(newLayers, readers'))
                /\ last' = Event("importDone", r.id, text, 0, "")
    /\ UNCHANGED <<map, layerType, showAllLayers, nextLayer,
                   deleted, interactionVars>>

ShowHideAllForceVisible(lo, gl, flag) ==
    [layerObj |-> [id \in DOMAIN lo |->
                     IF id \in Range(gl) THEN [lo[id] EXCEPT !.visible = TRUE]
                     ELSE lo[id]],
     showAllLayers |-> ~flag]

ShowHideAllSameAsFlag(lo, gl, flag) ==
    [layerObj |-> [id \in DOMAIN lo |->
                     IF id \in Range(gl) THEN [lo[id] EXCEPT !.visible = flag]
                     ELSE lo[id]],
     showAllLayers |-> ~flag]

\* handleShowHideAll as a function of what it reads: every layer of the list
\* is set to the negation of the flag, then the flag is negated.
ShowHideAll(lo, gl, flag) ==
    [layerObj |-> [id \in DOMAIN lo |->
                     IF id \in Range(gl) THEN [lo[id] EXCEPT !.visible = ~flag]
                     ELSE lo[id]],
     showAllLayers |-> ~flag]

handleShowHideAll ==
    LET r == ShowHideAll(layerObj, geoJsonLayers, showAllLayers)
    IN  /\ layerObj' = r.layerObj
        /\ showAllLayers' = r.showAllLayers
        /\ last' = Event("showHideAll", NoId, "", 0, "")
        /\ UNCHANGED <<map, layerType, geoJsonLayers, mapLayers, readers,
                       nextLayer, deleted, interactionVars>>

LayerActions == {"zoom", "delete", "download", "showHide"}

filterLayersByIndex(gl, id) ==
    [i \in 1..(Len(gl) - 1) |-> IF i < id THEN gl[i] ELSE gl[i + 1]]

\* geoJsonLayers.filter(l => l !== layer): the list without that layer
\* object, the others in their order.
filterLayers(gl, id) == SelectSeq(gl, LAMBDA l : l # id)

\* handleLayerAction(action, layer). The buttons pass a listed layer; a
\* delete is also taken with a layer object that is not listed.
handleLayerAction(action, id) ==
    /\ id \in Range(geoJsonLayers) \/ (action = "delete" /\ id \in 1..(nextLayer - 1))
    /\ action \in LayerActions
    /\ last' = Event(action, id, "", 0, "")
    /\ IF action = "delete"
       THEN LET removed == RemoveId(mapLayers, id)
                kept == filterLayers(geoJsonLayers, id)
            IN  /\ geoJsonLayers' = kept
                /\ mapLayers' = ReAddEffect(map, layerType, kept, removed)
                /\ layerObj' = Restrict(layerObj, Referenced(kept, readers))
                /\ deleted' = IF id \in Range(geoJsonLayers)
                              THEN deleted \cup {id} ELSE deleted
       ELSE IF action = "showHide"
       THEN /\ layerObj' = [layerObj EXCEPT ![id].visible = ~layerObj[id].visible]
            /\ UNCHANGED <<geoJsonLayers, mapLayers, deleted>>
       ELSE UNCHANGED <<geoJsonLayers, mapLayers, layerObj, deleted>>
    /\ UNCHANGED <<map, layerType, showAllLayers, readers, nextLayer,
                   interactionVars>>

\* ------------------------------------------------------------------- style
StyleProperties == {"color", "strokeWidth", "fillOpacity"}

\* Values the handler is called with. A colour "#rrggbb" is its 24-bit
\* number, a width is in pixels, an opacity is in tenths. The handler takes
\* any value; the range inputs that call it offer widths 1..10 and opacities
\* 0..1, so width 0 and opacity 11 stand for a call from outside them.
StyleValues(property) ==
    CASE property = "color" -> {16711680}
      [] property = "strokeWidth" -> {5, 0}
      [] property = "fillOpacity" -> {3, 11}

handleStyleChangeResetOthers(id, property, value) ==
    /\ id \in Range(geoJsonLayers)
    /\ layerObj' =
         [layerObj EXCEPT ![id] =
            [strokeColor |-> IF property = "color" THEN value
                             ELSE DefaultStrokeColor,
             strokeWidth |-> IF property = "strokeWidth" THEN value
                             ELSE DefaultStrokeWidth,
             fillOpacity |-> IF property = "fillOpacity" THEN value
                             ELSE DefaultFillOpacity,
             visible |-> @.visible]]
    /\ last' = Event("styleChange", id, property, value, "")
    /\ UNCHANGED <<map, layerType, geoJsonLayers, showAllLayers, mapLayers,
                   readers, nextLayer, deleted, interactionVars>>

handleStyleChangeShared(id, property, value) ==
    /\ id \in Range(geoJsonLayers)
    /\ layerObj' =
         [l \in DOMAIN layerObj |->
            [strokeColor |-> IF property = "color" THEN value
                             ELSE layerObj[l].strokeColor,
             strokeWidth |-> IF property = "strokeWidth" THEN value
                             ELSE layerObj[l].strokeWidth,
             fillOpacity |-> IF property = "fillOpacity" THEN value
                             ELSE layerObj[l].fillOpacity,
             visible |-> layerObj[l].visible]]
    /\ last' = Event("styleChange", id, property, value, "")
    /\ UNCHANGED <<map, layerType, geoJsonLayers, showAllLayers, mapLayers,
                   readers, nextLayer, deleted, interactionVars>>

\* handleStyleChange(layer, property, value): no check of `value`.
handleStyleChange(id, property, value) ==
    /\ id \in Range(geoJsonLayers)
    /\ layerObj' =
         [layerObj EXCEPT ![id] =
            [strokeColor |-> IF property = "color" THEN value ELSE @.strokeColor,
             strokeWidth |-> IF property = "strokeWidth" THEN value ELSE @.strokeWidth,
             fillOpacity |-> IF property = "fillOpacity" THEN value ELSE @.fillOpacity,
             visible |-> @.visible]]
    /\ last' = Event("styleChange", id, property, value, "")
    /\ UNCHANGED <<map, layerType, geoJsonLayers, showAllLayers, mapLayers,
                   readers, nextLayer, deleted, interactionVars>>

\* The layer list, visibility, basemap and import events, and a style event.
NextLayers ==
    \/ MapStateCommit
    \/ \E value \in LayerTypes : handleLayerChange(value)
    \/ handleGeoJSONImport
    \/ \E r \in readers, text \in FileTexts : readerOnload(r, text)
    \/ handleShowHideAll
    \/ \E action \in LayerActions, id \in Range(geoJsonLayers) :
          handleLayerAction(action, id)
    \/ \E id \in 1..(nextLayer - 1) \ Range(geoJsonLayers) :
          handleLayerAction("delete", id)
    \/ \E id \in Range(geoJsonLayers), value \in StyleValues("color") :
          handleStyleChange(id, "color", value)

\* The events that create and remove layers, and every style event.
NextStyle ==
    \/ MapStateCommit
    \/ handleGeoJSONImport
    \/ \E r \in readers, text \in FileTexts : readerOnload(r, text)
    \/ \E id \in Range(geoJsonLayers) : handleLayerAction("delete", id)
    \/ \E id \in Range(geoJsonLayers), property \in StyleProperties :
          \E value \in StyleValues(property) :
             handleStyleChange(id, property, value)

SpecLayers == Init /\ [][NextLayers]_vars

SpecStyle == Init /\ [][NextStyle]_vars

\* The basemap switch among the events that build up what it must keep:
\* interactions, drawn features, imported layers and the show-all flag.
NextBasemap ==
    \/ MapStateCommit
    \/ \E value \in LayerTypes : handleLayerChange(value)
    \/ handleGeoJSONImport
    \/ \E r \in readers : readerOnload(r, "geojson")
    \/ handleShowHideAll
    \/ addDrawInteraction("Point")
    \/ \E d \in Range(mapInteractions) : drawend(d)
    \/ handleModifyFeatures

SpecBasemap == Init /\ [][NextBasemap]_vars

Next == NextInteraction \/ NextLayers \/ NextStyle

Spec == Init /\ [][Next]_vars

\* ================================================================== claims

\* C1: after every startDraw, startModify, startTranslate and draw
\* completion, at most one editing interaction is installed on the map.
C1_AtMostOneInteraction == Len(mapInteractions) <= 1

\* C2: the Draw interactions on the map are never more than one, and it is
\* the one the component tracks; right after a startDraw that found the map,
\* exactly one Draw is installed, it is the one that call created, with the
\* geometry type of that call, and every earlier Draw is gone.
C2_OneDrawMostRecent ==
    LET draws == SelectSeq(mapInteractions, LAMBDA i : i.kind = "Draw")
    IN  /\ Len(draws) <= 1
        /\ \A i \in 1..Len(draws) : draws[i].id = drawInteraction
        /\ (last.op = "startDraw" /\ map = MapObject) =>
              /\ Len(draws) = 1
              /\ draws[1].id = last.id
              /\ draws[1].type = last.prop
              /\ last.id = nextInteraction - 1

\* C2 witness: two startDraw calls in a row, both with the map, and one Draw.
C2_Witness ==
    /\ last.op = "startDraw" /\ last.rep /\ map = MapObject
    /\ last.id >= 2
    /\ Cardinality(OfKind("Draw")) = 1

\* C3: a Translate acts on the features the store held when it was started:
\* a Translate that starts is bound to exactly the store's features, no step
\* changes the feature set of an installed Translate, and a feature that a
\* completed draw adds is in the set of no installed Translate.
C3_TranslateSnapshot ==
    [][ /\ \A t \in Range(mapInteractions') :
             t.kind = "Translate" =>
                IF t \in Range(mapInteractions)
                THEN BoundFeatures(t)' = BoundFeatures(t)
                ELSE BoundFeatures(t)' = FeatureIds(vectorSource)
        /\ \A f \in FeatureIds(vectorSource') \ FeatureIds(vectorSource) :
             \A t \in Range(mapInteractions') :
                t.kind = "Translate" => f \notin BoundFeatures(t)'
      ]_vars

\* C3 witness: a feature drawn after the first Translate started is outside
\* that Translate's set and inside the set of a Translate started later.
C3_Witness ==
    \E t1 \in OfKind("Translate"), t2 \in OfKind("Translate"), f \in vectorSource :
       /\ t1.id < t2.id
       /\ f.id \notin BoundFeatures(t1)
       /\ f.id \in BoundFeatures(t2)

\* C4: in every state the map's layer collection holds the layer on the
\* freehand source exactly once, whatever imports, deletes, visibility
\* changes, basemap switches and style changes came before.
C4_FreehandExactlyOnce ==
    Len(SelectSeq(mapLayers, LAMBDA l : l = FreehandLayer)) = 1

\* C4 witness: an imported layer has just been deleted while another one
\* stays listed, on the satellite basemap.
C4_Witness ==
    /\ last.op = "delete"
    /\ map = MapObject
    /\ layerType = "satellite"
    /\ Len(geoJsonLayers) >= 1

\* The state after handleShowHideAll ran twice from the current state.
ShowHideAllTwice ==
    LET s1 == ShowHideAll(layerObj, geoJsonLayers, showAllLayers)
    IN  ShowHideAll(s1.layerObj, geoJsonLayers, s1.showAllLayers)

\* C5 as first stated: two toggleShowAll calls in a row give every imported
\* layer the visibility it had before the first call.
C5_ToggleTwiceRestoresAll ==
    \A id \in Range(geoJsonLayers) :
       ShowHideAllTwice.layerObj[id].visible = layerObj[id].visible

\* C5 as amended: two toggleShowAll calls in a row restore the show-all flag
\* and leave every imported layer with visibility equal to that flag, so a
\* layer gets back its earlier visibility exactly when that visibility
\* equalled the flag before the first call.
C5_ToggleTwiceRestoresFlagged ==
    /\ ShowHideAllTwice.showAllLayers = showAllLayers
    /\ \A id \in Range(geoJsonLayers) :
          /\ ShowHideAllTwice.layerObj[id].visible = showAllLayers
          /\ (ShowHideAllTwice.layerObj[id].visible = layerObj[id].visible)
                <=> (layerObj[id].visible = showAllLayers)

\* C5 witness: toggleShowAll has run twice in a row over two listed layers.
C5_Witness ==
    /\ last.op = "showHideAll" /\ last.rep
    /\ Len(geoJsonLayers) = 2
    /\ \A id \in Range(geoJsonLayers) : layerObj[id].visible = showAllLayers

OutOfRange(property, value) ==
    \/ property = "fillOpacity" /\ (value < 0 \/ value > 10)
    \/ property = "strokeWidth" /\ value <= 0

\* C6: a style change called with a fill opacity outside [0,1] or a stroke
\* width not above 0 ends with InvalidStyleValue and leaves every layer's
\* stroke colour, stroke width and fill opacity as they were.
C6_OutOfRangeRejected ==
    [][ (last'.op = "styleChange" /\ OutOfRange(last'.prop, last'.val)) =>
           /\ last'.err = "InvalidStyleValue"
           /\ layerObj' = layerObj
      ]_vars

\* C8: an import that completes with success appends exactly one new layer
\* to the list and keeps every layer that was listed just before the
\* completion, in the same order; starting an import leaves the list as it is.
C8_ImportAppendsOne ==
    [][ /\ (last'.op = "importDone" /\ last'.err = "") =>
              geoJsonLayers' = Append(geoJsonLayers, last'.id)
        /\ last'.op = "importStart" => geoJsonLayers' = geoJsonLayers
      ]_vars

\* C9: an import of text that does not parse creates no layer: the layer
\* list, every listed layer's visibility and style, the map's layer stack,
\* the show-all flag, the basemap and the other pending imports are as
\* before, and the component still has its map.
C9_FailedImportChangesNothing ==
    [][ (last'.op = "importDone" /\ last'.prop = "malformed") =>
           /\ last'.err = "SyntaxError"
           /\ geoJsonLayers' = geoJsonLayers
           /\ \A id \in Range(geoJsonLayers) : layerObj'[id] = layerObj[id]
           /\ DOMAIN layerObj' \subseteq DOMAIN layerObj
           /\ mapLayers' = mapLayers
           /\ showAllLayers' = showAllLayers
           /\ layerType' = layerType
           /\ map' = map
           /\ readers' = readers \ {r \in readers : r.id = last'.id}
      ]_vars

\* C9 witness: an import has just failed to parse while a layer imported
\* earlier is listed and hidden.
C9_Witness ==
    /\ last.op = "importDone" /\ last.err = "SyntaxError"
    /\ Len(geoJsonLayers) >= 1
    /\ ~showAllLayers
    /\ \E id \in Range(geoJsonLayers) : ~layerObj[id].visible

\* C10: a layer that an import registers has the visibility of the show-all
\* flag at that moment.
C10_ImportedVisibilityIsFlag ==
    [][ (last'.op = "importDone" /\ last'.err = "") =>
           layerObj'[last'.id].visible = showAllLayers
      ]_vars

StartOps == {"startDraw", "startModify", "startTranslate"}

\* C11: no startDraw, startModify or startTranslate ends with an error, in
\* any state, the one before the component has its map included.
C11_StartNeverFails == last.op \in StartOps => last.err = ""

\* C12: a feature enters the store only when an installed Draw completes, one
\* feature for one completion; the completion removes that Draw from the map
\* and clears the tracked Draw, so that no Draw is installed afterwards and
\* the next feature needs a new startDraw.
C12_DrawOneShot ==
    [][ /\ FeatureIds(vectorSource') # FeatureIds(vectorSource) =>
              /\ last'.op = "drawend"
              /\ \E d \in OfKind("Draw") : d.id = last'.id
        /\ last'.op = "drawend" =>
              /\ FeatureIds(vectorSource') = FeatureIds(vectorSource) \cup {last'.val}
              /\ last'.val \notin FeatureIds(vectorSource)
              /\ \E f \in vectorSource' : f.id = last'.val /\ f.type = last'.prop
              /\ \A i \in Range(mapInteractions') : i.id # last'.id
              /\ OfKind("Draw")' = {}
              /\ drawInteraction' = NoId
      ]_vars

\* C12 witness: a second feature has just been completed, by a second Draw,
\* and no Draw is installed.
C12_Witness ==
    /\ last.op = "drawend"
    /\ Cardinality(vectorSource) = 2
    /\ last.id >= 2
    /\ OfKind("Draw") = {}
    /\ drawInteraction = NoId

\* C13: an installed Modify stays on the map through every step that is not
\* the start of an interaction, vertex edits included, and leaves the map in
\* every step that starts one.
C13_ModifyUntilNextStart ==
    [][ \A m \in OfKind("Modify") :
           (m \in Range(mapInteractions'))
              <=> ~ (last'.op \in StartOps /\ last'.id # NoId)
      ]_vars

\* C14: toggleShowAll negates the show-all flag and gives every listed layer
\* the negation of the flag's earlier value, which is the new flag value; it
\* changes no style, no list and nothing on the map, the freehand layer
\* included.
C14_ToggleBroadcasts ==
    [][ last'.op = "showHideAll" =>
           /\ showAllLayers' = ~showAllLayers
           /\ \A id \in Range(geoJsonLayers) :
                 /\ layerObj'[id].visible = ~showAllLayers
                 /\ layerObj'[id].visible = showAllLayers'
                 /\ layerObj'[id] = [layerObj[id] EXCEPT !.visible = ~showAllLayers]
           /\ geoJsonLayers' = geoJsonLayers
           /\ mapLayers' = mapLayers
           /\ \E i \in DOMAIN mapLayers' : mapLayers'[i] = FreehandLayer
      ]_vars

\* C14 witness: a toggle has just hidden two listed layers.
C14_Witness ==
    /\ last.op = "showHideAll"
    /\ ~showAllLayers
    /\ Len(geoJsonLayers) = 2
    /\ \A id \in Range(geoJsonLayers) : ~layerObj[id].visible

PositionIn(seq, x) == CHOOSE k \in DOMAIN seq : seq[k] = x

\* C15: a delete leaves the list without that layer and the map without it;
\* the other listed layers stay, unchanged and in the same relative order, at
\* positions 1..n with none repeated; a delete of a layer that is not listed
\* changes neither list, map nor layer objects.
C15_DeleteRemovesExactlyOne ==
    [][ last'.op = "delete" =>
           /\ Range(geoJsonLayers') = Range(geoJsonLayers) \ {last'.id}
           /\ \A i \in DOMAIN mapLayers' : mapLayers'[i] # GeoJsonLayer(last'.id)
           /\ Cardinality(Range(geoJsonLayers')) = Len(geoJsonLayers')
           /\ \A i \in DOMAIN geoJsonLayers', j \in DOMAIN geoJsonLayers' :
                 i < j => PositionIn(geoJsonLayers, geoJsonLayers'[i])
                            < PositionIn(geoJsonLayers, geoJsonLayers'[j])
           /\ \A l \in Range(geoJsonLayers') :
                 /\ layerObj'[l] = layerObj[l]
                 /\ \E i \in DOMAIN mapLayers' : mapLayers'[i] = GeoJsonLayer(l)
           /\ last'.id \notin Range(geoJsonLayers) =>
                 /\ geoJsonLayers' = geoJsonLayers
                 /\ mapLayers' = mapLayers
                 /\ layerObj' = layerObj
      ]_vars

\* C15 witness: the first of two listed layers has just been deleted and the
\* second is now at position 1.
C15_Witness ==
    /\ last.op = "delete"
    /\ last.id \in deleted
    /\ Len(geoJsonLayers) = 1
    /\ geoJsonLayers[1] > last.id

StyleOf(l) == <<l.strokeColor, l.strokeWidth, l.fillOpacity>>

\* C16: a style change sets the one field it names to the value given and
\* leaves the layer's other two style fields and its visibility as they
\* were; a layer starts with stroke #319FD3, width 1 and fill opacity 0.6.
C16_StyleFieldsIndependent ==
    [][ /\ last'.op = "styleChange" =>
              LET old == layerObj[last'.id]
                  new == layerObj'[last'.id]
              IN  /\ new.strokeColor =
                        IF last'.prop = "color" THEN last'.val ELSE old.strokeColor
                  /\ new.strokeWidth =
                        IF last'.prop = "strokeWidth" THEN last'.val
                        ELSE old.strokeWidth
                  /\ new.fillOpacity =
                        IF last'.prop = "fillOpacity" THEN last'.val
                        ELSE old.fillOpacity
                  /\ new.visible = old.visible
        /\ (last'.op = "importDone" /\ last'.err = "") =>
              StyleOf(layerObj'[last'.id]) = <<3252179, 1, 6>>
      ]_vars

\* C16 witness: after style changes a layer differs from the defaults in all
\* three fields.
C16_Witness ==
    /\ last.op = "styleChange"
    /\ layerObj[last.id].strokeColor # DefaultStrokeColor
    /\ layerObj[last.id].strokeWidth # DefaultStrokeWidth
    /\ layerObj[last.id].fillOpacity # DefaultFillOpacity

\* C17: a style change to one layer leaves every other layer object, listed
\* or held by a pending import, exactly as it was.
C17_StyleChangeIsPerLayer ==
    [][ last'.op = "styleChange" =>
           /\ DOMAIN layerObj' = DOMAIN layerObj
           /\ \A other \in DOMAIN layerObj \ {last'.id} :
                 layerObj'[other] = layerObj[other]
      ]_vars

\* C17 witness: two layers are listed and a style change has just made
\* their styles differ.
C17_Witness ==
    /\ last.op = "styleChange"
    /\ Len(geoJsonLayers) = 2
    /\ StyleOf(layerObj[geoJsonLayers[1]]) # StyleOf(layerObj[geoJsonLayers[2]])

\* C18: a layer that delete removed is never again in the list nor on the
\* map.
C18_DeletedStaysDeleted ==
    \A id \in deleted :
       /\ id \notin Range(geoJsonLayers)
       /\ \A i \in DOMAIN mapLayers : mapLayers[i] # GeoJsonLayer(id)

\* C19: after every event the map's layer stack is one basemap layer, then
\* the freehand layer, then the listed layers in list order, and holds no
\* layer twice.
C19_LayerStackMatchesList ==
    /\ Len(mapLayers) = Len(geoJsonLayers) + 2
    /\ mapLayers[1].kind = "tile"
    /\ mapLayers[2] = FreehandLayer
    /\ \A i \in DOMAIN geoJsonLayers : mapLayers[i + 2] = GeoJsonLayer(geoJsonLayers[i])
    /\ \A i \in DOMAIN mapLayers, j \in DOMAIN mapLayers :
          i # j => mapLayers[i] # mapLayers[j]

\* C19 witness: a second import has just completed and both layers are
\* listed, on the satellite basemap.
C19_Witness ==
    /\ last.op = "importDone" /\ last.err = ""
    /\ Len(geoJsonLayers) = 2
    /\ layerType = "satellite"
    /\ Len(mapLayers) = 4

\* C20: a basemap switch sets the basemap and changes nothing else: the
\* layer list, the layer objects, the drawn features, the show-all flag, the
\* installed interactions, the tracked Draw and the pending imports are as
\* before, and the map's layer stack differs in its first layer only.
C20_BasemapSwitchOnly ==
    [][ last'.op = "layerChange" =>
           /\ layerType' = last'.prop
           /\ UNCHANGED <<geoJsonLayers, layerObj, vectorSource, showAllLayers,
                          mapInteractions, drawInteraction, readers, map>>
           /\ Len(mapLayers') = Len(mapLayers)
           /\ \A i \in 2..Len(mapLayers) : mapLayers'[i] = mapLayers[i]
           /\ map = MapObject => mapLayers'[1] = TileLayer(last'.prop)
      ]_vars

\* C20 witness: the basemap has just been switched to satellite with an
\* imported layer listed and hidden, a feature drawn and a Modify installed.
C20_Witness ==
    /\ last.op = "layerChange"
    /\ layerType = "satellite"
    /\ mapLayers[1] = TileLayer("satellite")
    /\ Len(geoJsonLayers) >= 1
    /\ ~showAllLayers
    /\ vectorSource # {}
    /\ OfKind("Modify") # {}

====
